---- MODULE Spec2Model ----
(***************************************************************************)
(* A model of ViT_Model_demo.py: the modules PatchEmbedding,               *)
(* MultiHeadAttention, ResidualAdd, FeedForwardBlock,                      *)
(* TransformerEncoderBlock, TransformerEncoder, ClassificationHead and ViT.*)
(*                                                                         *)
(* A tensor is a handle [shape, st]: its shape and the storage it reads    *)
(* and writes.  Two handles with the same st alias each other (res = x, a  *)
(* view, a module that returns its argument).  store maps a storage to the *)
(* value it holds.  Values are terms: a tuple whose first component names  *)
(* the operation that produced it.  The token-level structure of the       *)
(* PatchEmbedding output is kept (<<"tokens", sequence of token terms>>),  *)
(* one batch item standing for all of them.                                *)
(***************************************************************************)
EXTENDS Integers, Sequences, FiniteSets, TLC

VARIABLES pc, cfg, params, todo, last, store, nextId, x, inp, mask, att, err

vars == <<pc, cfg, params, todo, last, store, nextId, x, inp, mask, att, err>>

(* ------------------------------ bounds -------------------------------- *)
MaxBatch == 2
MaxChan == 1
MaxPatch == 2
MaxImg == 3
MaxEmb == 3
MaxHeads == 2
MaxDepth == 2
MaxClasses == 2
MaxTok == 2

(* ------------------------- program constants -------------------------- *)
\* FeedForwardBlock's expansion (forward_expansion: int = 4)
forward_expansion == 4
\* the qkv=3 axis of MultiHeadAttention.forward's rearrange
qkv == 3

Ok == "none"
NoneVal == <<"none">>
NoneH == [shape |-> <<>>, st |-> 0]

(* ------------------------------ shapes -------------------------------- *)
LastDim(s) == s[Len(s)]
Front(s) == SubSeq(s, 1, Len(s) - 1)

\* `x += other`: other must broadcast to x's own shape (trailing dimensions
\* aligned, each equal to x's or 1); the written tensor never grows.
CanAddInto(xs, os) ==
    /\ Len(os) <= Len(xs)
    /\ \A i \in 1..Len(os) :
          LET a == xs[Len(xs) - Len(os) + i]
              b == os[i]
          IN  b = a \/ b = 1

(* --------------------- tensor values: [err, shape, val] ---------------- *)
Tn(shape, val) == [err |-> Ok, shape |-> shape, val |-> val]
Fail(e) == [err |-> e, shape |-> <<>>, val |-> NoneVal]

\* elementwise sum of two values; token sequences add token by token, a single
\* row being broadcast over the sequence
AddVal(a, b) ==
    IF a[1] = "tokens" /\ b[1] = "tokens"
    THEN <<"tokens", [i \in 1..Len(a[2]) |->
                        <<"add", a[2][i], b[2][IF Len(b[2]) = 1 THEN 1 ELSE i]>>]>>
    ELSE <<"add", a, b>>

\* nn.Linear(nin, nout) named `name` of block k
Linear(name, k, nin, nout, t) ==
    IF t.err # Ok THEN t
    ELSE IF Len(t.shape) = 0 \/ LastDim(t.shape) # nin THEN Fail("RuntimeError")
    ELSE Tn(Append(Front(t.shape), nout), <<"linear", name, k, t.val>>)

\* nn.LayerNorm(emb) named `name` of block k
LayerNorm(name, k, emb, t) ==
    IF t.err # Ok THEN t
    ELSE IF Len(t.shape) = 0 \/ LastDim(t.shape) # emb THEN Fail("RuntimeError")
    ELSE Tn(t.shape, <<"ln", name, k, t.val>>)

\* nn.GELU()
GELU(t) == IF t.err # Ok THEN t ELSE Tn(t.shape, <<"gelu", t.val>>)

\* nn.Dropout(p) as a value: p = 0 returns its input
DropVal(p, v) == IF p = 0 THEN v ELSE <<"dropout", v>>

(* ------------------------- MultiHeadAttention ------------------------- *)
\* rearrange(t, "b n (h d qkv) -> (qkv) b h n d", h=num_heads, qkv=3)
RearrangeQKV(heads, t) ==
    IF t.err # Ok THEN t
    ELSE IF Len(t.shape) # 3 THEN Fail("EinopsError")
    ELSE IF t.shape[3] % (heads * qkv) # 0 THEN Fail("EinopsError")
    ELSE Tn(<<qkv, t.shape[1], heads, t.shape[2], t.shape[3] \div (heads * qkv)>>,
            <<"split", t.val>>)

\* t[i] along the first axis
Select(i, t) ==
    IF t.err # Ok THEN t
    ELSE Tn(Tail(t.shape), <<"index", i, t.val>>)

\* torch.einsum('bhqd, bhkd -> bhqk', q, k)
EinsumQK(q, k) ==
    IF q.err # Ok THEN q
    ELSE IF k.err # Ok THEN k
    ELSE IF Len(q.shape) # 4 \/ Len(k.shape) # 4 THEN Fail("RuntimeError")
    ELSE IF q.shape[1] # k.shape[1] \/ q.shape[2] # k.shape[2] \/ q.shape[4] # k.shape[4]
         THEN Fail("RuntimeError")
    ELSE Tn(<<q.shape[1], q.shape[2], q.shape[3], k.shape[3]>>, <<"qk", q.val, k.val>>)

\* torch.einsum('bhal, bhlv -> bhav', a, v)
EinsumAV(a, v) ==
    IF a.err # Ok THEN a
    ELSE IF v.err # Ok THEN v
    ELSE IF Len(a.shape) # 4 \/ Len(v.shape) # 4 THEN Fail("RuntimeError")
    ELSE IF a.shape[1] # v.shape[1] \/ a.shape[2] # v.shape[2] \/ a.shape[4] # v.shape[3]
         THEN Fail("RuntimeError")
    ELSE Tn(<<a.shape[1], a.shape[2], a.shape[3], v.shape[4]>>, <<"av", a.val, v.val>>)

\* MergeHeads gone wrong: "b h n d -> b n d", the head axis lost
MergeHeadsLosesHeads(t) ==
    IF t.err # Ok THEN t
    ELSE IF Len(t.shape) # 4 THEN Fail("EinopsError")
    ELSE Tn(<<t.shape[1], t.shape[3], t.shape[4]>>, <<"merge", t.val>>)

\* rearrange(out, "b h n d -> b n (h d)")
MergeHeads(t) ==
    IF t.err # Ok THEN t
    ELSE IF Len(t.shape) # 4 THEN Fail("EinopsError")
    ELSE Tn(<<t.shape[1], t.shape[3], t.shape[2] * t.shape[4]>>, <<"merge", t.val>>)

\* the methods of torch.Tensor whose names start with "mask"
TensorMaskMethods == {"masked_fill", "masked_fill_", "masked_scatter",
                      "masked_scatter_", "masked_select"}

\* `energy.mask_fill(~mask, fill_value)` when a mask is given (mk # 0 masks key
\* position mk for every query): the attribute is looked up on the tensor; the
\* value the call would return is not bound to any name, so energy is unchanged.
MaskEnergy(mk, e) ==
    IF e.err # Ok \/ mk = 0 THEN e
    ELSE IF "mask_fill" \notin TensorMaskMethods THEN Fail("AttributeError")
    ELSE e

\* F.softmax(energy, dim=-1) / scaling, scaling = emb_size ** (1/2)
SoftmaxScaled(emb, e) ==
    IF e.err # Ok THEN e
    ELSE Tn(e.shape, <<"div", <<"softmax", e.val>>, <<"sqrt", emb>>>>)

\* MultiHeadAttention.forward of block k; dropout is the att_drop probability.
\* [out, att]: the returned tensor and the attention weights it used.
MultiHeadAttentionForward(k, emb, heads, dropout, mk, t) ==
    LET split   == RearrangeQKV(heads, Linear("qkv", k, emb, emb * 3, t))
        queries == Select(0, split)
        keys    == Select(1, split)
        values  == Select(2, split)
        energy  == MaskEnergy(mk, EinsumQK(queries, keys))
        att0    == SoftmaxScaled(emb, energy)
        att1    == IF att0.err # Ok THEN att0
                   ELSE Tn(att0.shape, DropVal(dropout, att0.val))
        out     == Linear("projection", k, emb, emb, MergeHeads(EinsumAV(att1, values)))
    IN  [out |-> out, att |-> IF att1.err = Ok THEN att1.val ELSE NoneVal]

(* --------------------------- FeedForwardBlock -------------------------- *)
\* FeedForwardBlock(emb_size, expansion, drop_p) of block k
FeedForwardBlockForward(k, emb, expansion, drop, t) ==
    LET a == GELU(Linear("ff1", k, emb, expansion * emb, t))
        d == IF a.err # Ok THEN a ELSE Tn(a.shape, DropVal(drop, a.val))
    IN  Linear("ff2", k, expansion * emb, emb, d)

(* -------------------------- ClassificationHead ------------------------- *)
\* ReduceMean gone wrong: the token axis kept with size 1
ReduceMeanKeepsAxis(t) ==
    IF t.err # Ok THEN t
    ELSE IF Len(t.shape) # 3 THEN Fail("EinopsError")
    ELSE Tn(<<t.shape[1], 1, t.shape[3]>>, <<"mean", t.val>>)

\* Reduce('b n e -> b e', reduction='mean')
ReduceMean(t) ==
    IF t.err # Ok THEN t
    ELSE IF Len(t.shape) # 3 THEN Fail("EinopsError")
    ELSE Tn(<<t.shape[1], t.shape[3]>>, <<"mean", t.val>>)

ClassificationHeadForward(emb, n_classes, t) ==
    Linear("head", 0, emb, n_classes, LayerNorm("head", 0, emb, ReduceMean(t)))

(* --------------------------- PatchEmbedding --------------------------- *)
\* nn.Conv2d(in_channels, emb_size, kernel_size=patch_size, stride=patch_size):
\* one embedding per tile; <<"patch", r, c>> is the projection of the tile in
\* tile row r and tile column c (tiles that do not fit are dropped).
Conv2d(in_channels, emb, p, t) ==
    IF t.err # Ok THEN t
    ELSE IF Len(t.shape) # 4 \/ t.shape[2] # in_channels THEN Fail("RuntimeError")
    ELSE IF t.shape[3] < p \/ t.shape[4] < p THEN Fail("RuntimeError")
    ELSE LET h == ((t.shape[3] - p) \div p) + 1
             w == ((t.shape[4] - p) \div p) + 1
         IN  Tn(<<t.shape[1], emb, h, w>>,
                <<"grid", [r \in 1..h |-> [c \in 1..w |-> <<"patch", r - 1, c - 1>>]]>>)

\* FlattenHW gone wrong: '(w h)', h varies fastest
FlattenColumnMajor(rows, h, w) ==
    [i \in 1..(h * w) |-> rows[((i - 1) % h) + 1][((i - 1) \div h) + 1]]

\* the order in which (h w) lists the grid: w varies fastest
FlattenHW(rows, h, w) ==
    [i \in 1..(h * w) |-> rows[((i - 1) \div w) + 1][((i - 1) % w) + 1]]

\* Rearrange('b e (h) (w) -> b (h w) e')
RearrangePatches(t) ==
    IF t.err # Ok THEN t
    ELSE IF Len(t.shape) # 4 THEN Fail("EinopsError")
    ELSE Tn(<<t.shape[1], t.shape[3] * t.shape[4], t.shape[2]>>,
            <<"tokens", FlattenHW(t.val[2], t.shape[3], t.shape[4])>>)

\* the parameters made by PatchEmbedding.__init__
ClsTokenShape(c) == <<1, 1, c.emb_size>>
NumPositions(c) == (c.img_size \div c.patch_size) * (c.img_size \div c.patch_size) + 1
PositionsShape(c) == <<NumPositions(c), c.emb_size>>
ClsTokenVal == <<"tokens", << <<"cls_token">> >> >>
PositionsVal(c) == <<"tokens", [i \in 1..NumPositions(c) |-> <<"pos", i - 1>>]>>

(* ------------- module calls: r = [store, next, err, h, att] ------------ *)
Load(r) == Tn(r.h.shape, r.store[r.h.st])

\* a module's output in storage of its own
Fresh(r, t) ==
    IF t.err # Ok THEN [r EXCEPT !.err = t.err, !.h = NoneH]
    ELSE [r EXCEPT !.store = (r.next :> t.val) @@ r.store,
                   !.next = r.next + 1,
                   !.h = [shape |-> t.shape, st |-> r.next]]

\* InplaceAdd gone wrong: the sum is written into the right operand
InplaceAddIntoOther(r, target, other) ==
    IF ~CanAddInto(target.shape, other.shape)
    THEN [r EXCEPT !.err = "RuntimeError", !.h = NoneH]
    ELSE [r EXCEPT !.store[other.st] = AddVal(r.store[target.st], r.store[other.st]),
                   !.h = target]

\* target += other, in place: writes target's storage
InplaceAdd(r, target, other) ==
    IF ~CanAddInto(target.shape, other.shape)
    THEN [r EXCEPT !.err = "RuntimeError", !.h = NoneH]
    ELSE [r EXCEPT !.store[target.st] = AddVal(r.store[target.st], r.store[other.st]),
                   !.h = target]

\* nn.Dropout(p): p = 0 hands its input back, otherwise a new tensor
DropoutModule(p, r) ==
    IF r.err # Ok THEN r
    ELSE IF p = 0 THEN r
    ELSE Fresh(r, Tn(r.h.shape, DropVal(p, r.store[r.h.st])))

\* the attention probability `dropout` and FeedForwardBlock's drop_p keep their
\* defaults: TransformerEncoderBlock passes neither unless the caller does
att_dropout == 0
forward_drop_p == 0

\* AttentionStage gone wrong: the normalization after the attention
AttentionStagePostNorm(k, c, mk, r) ==
    LET m  == MultiHeadAttentionForward(k, c.emb_size, c.num_heads, att_dropout, mk, Load(r))
        r1 == Fresh(r, LayerNorm("ln1", k, c.emb_size, m.out))
    IN  DropoutModule(c.drop_p, [r1 EXCEPT !.att = m.att])

\* nn.Sequential(LayerNorm, MultiHeadAttention, Dropout(drop_p)) of block k
AttentionStage(k, c, mk, r) ==
    LET m  == MultiHeadAttentionForward(k, c.emb_size, c.num_heads, att_dropout, mk,
                                        LayerNorm("ln1", k, c.emb_size, Load(r)))
        r1 == Fresh(r, m.out)
    IN  DropoutModule(c.drop_p, [r1 EXCEPT !.att = m.att])

\* nn.Sequential(LayerNorm, FeedForwardBlock, Dropout(drop_p)) of block k
FeedForwardStage(k, c, r) ==
    DropoutModule(c.drop_p,
        Fresh(r, FeedForwardBlockForward(k, c.emb_size, forward_expansion, forward_drop_p,
                                         LayerNorm("ln2", k, c.emb_size, Load(r)))))

\* self.fn(x): the module a ResidualAdd wraps
ApplyFn(fn, c, r) ==
    CASE fn[1] = "attn"     -> AttentionStage(fn[2], c, 0, r)
      [] fn[1] = "ff"       -> FeedForwardStage(fn[2], c, r)
      [] fn[1] = "identity" -> r
      [] fn[1] = "copy"     -> Fresh(r, Load(r))
      [] fn[1] = "map"      -> Fresh(r, Tn(fn[2], <<"fn", r.store[r.h.st]>>))

\* ResidualAddForward gone wrong: fn(x) returned without the skip path
ResidualAddForwardNoSkip(fn, c, r) == ApplyFn(fn, c, r)

\* ResidualAdd.forward: res = x; x = self.fn(x); x += res; return x
ResidualAddForward(fn, c, r) ==
    LET res == r.h
        r1  == ApplyFn(fn, c, r)
    IN  IF r1.err # Ok THEN r1
        ELSE InplaceAdd(r1, r1.h, res)

\* MultiHeadAttention called on its own
MultiHeadAttentionModule(c, mk, r) ==
    LET m == MultiHeadAttentionForward(0, c.emb_size, c.num_heads, att_dropout, mk, Load(r))
    IN  [Fresh(r, m.out) EXCEPT !.att = m.att]

\* FeedForwardBlock called on its own
FeedForwardBlockModule(c, r) ==
    Fresh(r, FeedForwardBlockForward(0, c.emb_size, forward_expansion, forward_drop_p, Load(r)))

ClassificationHeadModule(c, r) ==
    Fresh(r, ClassificationHeadForward(c.emb_size, c.n_classes, Load(r)))

\* repeat(self.cls_token, '() n e -> b n e', b=b): an expanded view of cls_token
RepeatCls(cls, b) == [shape |-> <<b, cls.shape[2], cls.shape[3]>>, st |-> cls.st]

\* torch.cat([a, b], dim=1) of two rank-3 handles
CatTokens(r, a, b) ==
    IF Len(a.shape) # 3 \/ Len(b.shape) # 3 THEN Fail("RuntimeError")
    ELSE IF a.shape[1] # b.shape[1] \/ a.shape[3] # b.shape[3] THEN Fail("RuntimeError")
    ELSE Tn(<<a.shape[1], a.shape[2] + b.shape[2], a.shape[3]>>,
            <<"tokens", r.store[a.st][2] \o r.store[b.st][2]>>)

\* PatchEmbedding.forward
PatchEmbeddingForward(c, p, r) ==
    LET b  == r.h.shape[1]
        r1 == Fresh(r, RearrangePatches(
                         Conv2d(c.in_channels, c.emb_size, c.patch_size, Load(r))))
    IN  IF Len(r.h.shape) # 4 THEN [r EXCEPT !.err = "ValueError", !.h = NoneH]
        ELSE IF r1.err # Ok THEN r1
        ELSE LET cls_tokens == RepeatCls(p.cls_token, b)
                 r2 == Fresh(r1, CatTokens(r1, cls_tokens, r1.h))
             IN  IF r2.err # Ok THEN r2
                 ELSE InplaceAdd(r2, r2.h, p.positions)

(* ------------------------------- state -------------------------------- *)
Dims3 == {<<b, t, e>> : b \in 1..MaxBatch, t \in 1..MaxTok, e \in 1..MaxEmb}

Unused == [cls |-> "", in_channels |-> 0, patch_size |-> 0, emb_size |-> 0,
           img_size |-> 0, depth |-> 0, n_classes |-> 0, num_heads |-> 0,
           drop_p |-> 0, fn |-> NoneVal]

\* ViT(in_channels, patch_size, emb_size, img_size, depth, n_classes,
\*     num_heads=, drop_p=); drop_p is 0 or 1, 1 standing for any p > 0
ViTConfigs ==
    [cls : {"ViT"}, in_channels : 1..MaxChan, patch_size : 1..MaxPatch,
     emb_size : 1..MaxEmb, img_size : 1..MaxImg, depth : 1..MaxDepth,
     n_classes : 1..MaxClasses, num_heads : 1..MaxHeads, drop_p : {0, 1},
     fn : {NoneVal}]

\* TransformerEncoderBlock(emb_size, drop_p, num_heads=)
BlockConfigs ==
    {[Unused EXCEPT !.cls = "TransformerEncoderBlock", !.emb_size = e,
                    !.num_heads = h, !.drop_p = p, !.depth = 1] :
        e \in 1..MaxEmb, h \in 1..MaxHeads, p \in {0, 1}}

\* MultiHeadAttention(emb_size, num_heads)
AttentionConfigs ==
    {[Unused EXCEPT !.cls = "MultiHeadAttention", !.emb_size = e, !.num_heads = h] :
        e \in 1..MaxEmb, h \in 1..MaxHeads}

\* FeedForwardBlock(emb_size)
FeedForwardConfigs ==
    {[Unused EXCEPT !.cls = "FeedForwardBlock", !.emb_size = e] : e \in 1..MaxEmb}

\* ResidualAdd(fn): fn returns its argument, a new tensor equal to it, or a new
\* tensor of some shape
ResidualConfigs ==
    {[Unused EXCEPT !.cls = "ResidualAdd", !.fn = f] :
        f \in {<<"identity">>, <<"copy">>} \cup {<<"map", s>> : s \in Dims3}}

Configs ==
    ViTConfigs \cup BlockConfigs \cup AttentionConfigs \cup FeedForwardConfigs
        \cup ResidualConfigs

InputVal == <<"input">>

\* the blocks of TransformerEncoder(depth): each a Sequential of two ResidualAdd
EncoderChildren(depth) ==
    [i \in 1..(2 * depth) |->
        IF i % 2 = 1 THEN <<"attn", (i + 1) \div 2>> ELSE <<"ff", i \div 2>>]

\* the calls a forward pass of the constructed module makes, in order
Children(c) ==
    CASE c.cls = "ViT" ->
            << <<"patch", 0>> >> \o EncoderChildren(c.depth) \o << <<"head", 0>> >>
      [] c.cls = "TransformerEncoderBlock" -> EncoderChildren(1)
      [] c.cls = "MultiHeadAttention" -> << <<"mha", 0>> >>
      [] c.cls = "FeedForwardBlock" -> << <<"ffn", 0>> >>
      [] c.cls = "ResidualAdd" -> << <<"res", 0>> >>

Init ==
    /\ pc = "new"
    /\ cfg \in Configs
    /\ params = [cls_token |-> NoneH, positions |-> NoneH]
    /\ todo = <<>>
    /\ last = <<"none", 0>>
    /\ store = (0 :> NoneVal)
    /\ nextId = 1
    /\ x = NoneH
    /\ inp = NoneH
    /\ mask = 0
    /\ att = NoneVal
    /\ err = Ok

\* the constructor of cfg.cls and of every module it builds: none of them
\* checks its arguments against each other
Construct ==
    /\ pc = "new"
    /\ pc' = "ready"
    /\ IF cfg.cls = "ViT"
       THEN /\ params' = [cls_token |-> [shape |-> ClsTokenShape(cfg), st |-> 1],
                          positions |-> [shape |-> PositionsShape(cfg), st |-> 2]]
            /\ store' = (1 :> ClsTokenVal) @@ (2 :> PositionsVal(cfg)) @@ store
            /\ nextId' = 3
       ELSE UNCHANGED <<params, store, nextId>>
    /\ err' = Ok
    /\ UNCHANGED <<cfg, todo, last, x, inp, mask, att>>

InputShapes(c) ==
    IF c.cls = "ViT"
    THEN {<<b, ch, h, w>> : b \in 1..MaxBatch, ch \in 1..MaxChan,
                            h \in 1..MaxImg, w \in 1..MaxImg}
    ELSE Dims3

\* the masks a caller may pass: 0 is None, j > 0 marks key position j invalid
\* for every query (MultiHeadAttention alone takes a mask)
Masks(c, s) == IF c.cls = "MultiHeadAttention" THEN 0..s[2] ELSE {0}

\* the caller applies the module to an input tensor
Call ==
    /\ pc = "ready"
    /\ \E s \in InputShapes(cfg) :
          /\ inp' = [shape |-> s, st |-> nextId]
          /\ x' = [shape |-> s, st |-> nextId]
          /\ mask' \in Masks(cfg, s)
    /\ store' = (nextId :> InputVal) @@ store
    /\ nextId' = nextId + 1
    /\ todo' = Children(cfg)
    /\ pc' = "running"
    /\ UNCHANGED <<cfg, params, last, att, err>>

Machine == [store |-> store, next |-> nextId, err |-> Ok, h |-> x, att |-> att]

\* storages some handle still refers to
Live(r) == {0, params.cls_token.st, params.positions.st, inp.st, r.h.st}

\* a child of the running container has returned (or raised)
Finish(r) ==
    /\ err' = r.err
    /\ x' = r.h
    /\ store' = [i \in (DOMAIN r.store) \cap Live(r) |-> r.store[i]]
    /\ nextId' = r.next
    /\ att' = r.att
    /\ last' = Head(todo)
    /\ todo' = Tail(todo)
    /\ pc' = IF r.err # Ok \/ Tail(todo) = <<>> THEN "done" ELSE "running"
    /\ UNCHANGED <<cfg, params, inp, mask>>

Next1(kind) == pc = "running" /\ todo # <<>> /\ Head(todo)[1] = kind

\* ViT's first child
StepPatchEmbedding ==
    /\ Next1("patch")
    /\ Finish(PatchEmbeddingForward(cfg, params, Machine))

\* a block's first ResidualAdd
StepAttentionResidual ==
    /\ Next1("attn")
    /\ Finish(ResidualAddForward(Head(todo), cfg, Machine))

\* a block's second ResidualAdd
StepFeedForwardResidual ==
    /\ Next1("ff")
    /\ Finish(ResidualAddForward(Head(todo), cfg, Machine))

\* ViT's last child
StepClassificationHead ==
    /\ Next1("head")
    /\ Finish(ClassificationHeadModule(cfg, Machine))

StepMultiHeadAttention ==
    /\ Next1("mha")
    /\ Finish(MultiHeadAttentionModule(cfg, mask, Machine))

StepFeedForwardBlock ==
    /\ Next1("ffn")
    /\ Finish(FeedForwardBlockModule(cfg, Machine))

StepResidualAdd ==
    /\ Next1("res")
    /\ Finish(ResidualAddForward(cfg.fn, cfg, Machine))

Next ==
    \/ Construct
    \/ Call
    \/ StepPatchEmbedding
    \/ StepAttentionResidual
    \/ StepFeedForwardResidual
    \/ StepClassificationHead
    \/ StepMultiHeadAttention
    \/ StepFeedForwardBlock
    \/ StepResidualAdd

Spec == Init /\ [][Next]_vars

(* ------------------------------- claims ------------------------------- *)
Started == pc \in {"running", "done"}
IsViT == cfg.cls = "ViT"
HeadsDivide == cfg.num_heads > 0 /\ cfg.emb_size % cfg.num_heads = 0
PatchDivides == cfg.patch_size > 0 /\ cfg.img_size % cfg.patch_size = 0
\* the input is (B, in_channels, img_size, img_size)
ConfiguredImage ==
    /\ Len(inp.shape) = 4
    /\ inp.shape[2] = cfg.in_channels
    /\ inp.shape[3] = cfg.img_size
    /\ inp.shape[4] = cfg.img_size
Grid == cfg.img_size \div cfg.patch_size

\* C1: a ViT with img_size divisible by patch_size and emb_size divisible by
\* num_heads, applied to (B, in_channels, img_size, img_size), raises nothing
\* and, once its last child has returned, holds a tensor of shape
\* (B, n_classes), whatever img_size, patch_size and depth are.
C1_LogitsShape ==
    (IsViT /\ PatchDivides /\ HeadsDivide /\ cfg.depth >= 1 /\ Started /\ ConfiguredImage)
        => /\ err = Ok
           /\ pc = "done" => /\ last = <<"head", 0>>
                             /\ x.shape = <<inp.shape[1], cfg.n_classes>>

C1_Witness ==
    /\ IsViT /\ PatchDivides /\ HeadsDivide /\ ConfiguredImage
    /\ pc = "done" /\ err = Ok /\ last = <<"head", 0>>
    /\ cfg.depth = 2 /\ cfg.num_heads = 2 /\ cfg.patch_size = 2 /\ cfg.drop_p = 1
    /\ inp.shape[1] = 2
    /\ x.shape = <<2, cfg.n_classes>>

\* C2: PatchEmbedding.forward on (B, in_channels, img_size, img_size), img_size
\* divisible by patch_size, returns (img_size/patch_size)^2 + 1 tokens of width
\* emb_size per batch item; token 0 is cls_token + positions[0] and token
\* 1 + r*g + c is the embedding of the patch in row r, column c (g patches a
\* row) plus its position vector.
C2_TokenSequence ==
    (IsViT /\ PatchDivides /\ ConfiguredImage /\ last = <<"patch", 0>>)
        => /\ err = Ok
           /\ x.shape = <<inp.shape[1], Grid * Grid + 1, cfg.emb_size>>
           /\ LET tokens == store[x.st][2]
              IN  /\ Len(tokens) = Grid * Grid + 1
                  /\ tokens[1] = <<"add", <<"cls_token">>, <<"pos", 0>>>>
                  /\ \A r \in 0..(Grid - 1) : \A c \in 0..(Grid - 1) :
                        tokens[2 + r * Grid + c] =
                            <<"add", <<"patch", r, c>>, <<"pos", 1 + r * Grid + c>>>>

C2_Witness ==
    /\ IsViT /\ PatchDivides /\ ConfiguredImage /\ last = <<"patch", 0>>
    /\ err = Ok /\ Grid = 3 /\ inp.shape[1] = 2
    /\ Len(store[x.st][2]) = 10
    /\ store[x.st][2][6] = <<"add", <<"patch", 1, 1>>, <<"pos", 5>>>>

\* C3: on an input (B, T, E) with E the configured emb_size and E divisible by
\* num_heads, TransformerEncoderBlock, MultiHeadAttention.forward without a
\* mask and FeedForwardBlock raise nothing and hand back a tensor of shape
\* (B, T, E) (the block after each of its two stages).
C3_ShapePreserved ==
    (/\ cfg.cls \in {"TransformerEncoderBlock", "MultiHeadAttention", "FeedForwardBlock"}
     /\ pc = "done" \/ (pc = "running" /\ last # <<"none", 0>>)
     /\ mask = 0
     /\ inp.shape[3] = cfg.emb_size
     /\ cfg.cls = "FeedForwardBlock" \/ HeadsDivide)
        => /\ err = Ok
           /\ x.shape = inp.shape

C3_Witness ==
    /\ cfg.cls = "TransformerEncoderBlock" /\ pc = "done" /\ err = Ok
    /\ last = <<"ff", 1>>
    /\ cfg.num_heads = 2 /\ cfg.emb_size = 2
    /\ inp.shape = <<2, 2, 2>> /\ x.shape = <<2, 2, 2>>

\* C4: MultiHeadAttention.forward called with a mask that marks key position j
\* invalid for every query completes, and the attention weights it used are
\* the softmax of scores in which position j was filled with the most negative
\* value.
C4_MaskedKeyGetsNoWeight ==
    (cfg.cls = "MultiHeadAttention" /\ pc = "done" /\ mask # 0
        /\ inp.shape[3] = cfg.emb_size /\ HeadsDivide)
        => /\ err = Ok
           /\ att[1] = "div"
           /\ att[2][2][1] = "masked_fill"
           /\ att[2][2][3] = mask

\* C5: constructing MultiHeadAttention, or a block or ViT that holds one, with
\* emb_size not divisible by num_heads fails: the constructor raises and no
\* forward pass is attempted.
C5_IndivisibleHeadsRejected ==
    (/\ cfg.cls \in {"MultiHeadAttention", "TransformerEncoderBlock", "ViT"}
     /\ ~HeadsDivide
     /\ pc # "new")
        => err # Ok /\ pc = "ready"

\* the first forward pass of a module built with indivisible sizes is what fails
C5_Witness ==
    /\ cfg.cls = "MultiHeadAttention" /\ ~HeadsDivide
    /\ pc = "done" /\ mask = 0 /\ inp.shape[3] = cfg.emb_size
    /\ err = "EinopsError"

\* C6: an image size not divisible by patch_size never yields tokens:
\* constructing with such an img_size fails, and PatchEmbedding.forward on an
\* image whose height or width is not divisible by patch_size fails instead of
\* returning.
C6_IndivisibleImageRejected ==
    /\ (IsViT /\ ~PatchDivides /\ pc # "new") => err # Ok
    /\ (IsViT /\ last = <<"patch", 0>>
            /\ (inp.shape[3] % cfg.patch_size # 0 \/ inp.shape[4] % cfg.patch_size # 0))
          => err # Ok

\* a 3 x 3 image cut into patches of 2 x 2 comes back as one patch and cls_token
C6_Witness ==
    /\ IsViT /\ ~PatchDivides /\ ConfiguredImage /\ last = <<"patch", 0>>
    /\ cfg.patch_size = 2 /\ cfg.img_size = 3
    /\ err = Ok
    /\ x.shape = <<inp.shape[1], 2, cfg.emb_size>>
    /\ store[x.st][2][2] = <<"add", <<"patch", 0, 0>>, <<"pos", 1>>>>

\* C7: if the module ResidualAdd wraps is the identity (it returns its argument,
\* or a new tensor equal to it), ResidualAdd.forward returns x + x, twice the
\* value x the input held when the call was made.
C7_IdentityDoubles ==
    (cfg.cls = "ResidualAdd" /\ cfg.fn \in {<<"identity">>, <<"copy">>} /\ pc = "done")
        => /\ err = Ok
           /\ x.shape = inp.shape
           /\ store[x.st] = <<"add", InputVal, InputVal>>

C7_Witness ==
    /\ cfg.cls = "ResidualAdd" /\ cfg.fn = <<"identity">> /\ pc = "done"
    /\ inp.shape = <<2, 2, 3>>
    /\ x.st = inp.st
    /\ store[x.st] = <<"add", InputVal, InputVal>>

\* C8: ResidualAdd.forward fails whenever the shape of fn(x) differs from the
\* shape of x, also when they differ only in a dimension of size 1.
C8_ShapeMismatchRaises ==
    (cfg.cls = "ResidualAdd" /\ pc = "done" /\ cfg.fn[1] = "map" /\ cfg.fn[2] # inp.shape)
        => err # Ok

\* the value and shape of the configured block's first stage on the input
C9_Input == Tn(inp.shape, InputVal)
C9_Attention ==
    MultiHeadAttentionForward(1, cfg.emb_size, cfg.num_heads, att_dropout, 0,
                              LayerNorm("ln1", 1, cfg.emb_size, C9_Input)).out.val
C9_Y == <<"add", DropVal(cfg.drop_p, C9_Attention), InputVal>>
C9_FeedForward ==
    FeedForwardBlockForward(1, cfg.emb_size, forward_expansion, forward_drop_p,
                            LayerNorm("ln2", 1, cfg.emb_size, Tn(inp.shape, C9_Y))).val

\* C9: TransformerEncoderBlock on x holds y = Dropout(MultiHeadAttention(
\* LayerNorm(x))) + x after its first stage and returns Dropout(
\* FeedForwardBlock(LayerNorm(y))) + y: each stage normalizes only what it
\* feeds its sub-transformation, adds its un-normalized input, and attention
\* comes first.
C9_PreNormOrder ==
    (cfg.cls = "TransformerEncoderBlock" /\ Started /\ HeadsDivide
        /\ inp.shape[3] = cfg.emb_size)
        => /\ last = <<"attn", 1>> => store[x.st] = C9_Y
           /\ last = <<"ff", 1>> =>
                 store[x.st] = <<"add", DropVal(cfg.drop_p, C9_FeedForward), C9_Y>>
           /\ pc = "done" => last = <<"ff", 1>>

C9_Witness ==
    /\ cfg.cls = "TransformerEncoderBlock" /\ pc = "done" /\ err = Ok
    /\ HeadsDivide /\ cfg.num_heads = 2 /\ cfg.drop_p = 1
    /\ store[x.st][1] = "add"
    /\ store[x.st][3] = C9_Y
    /\ store[x.st][2][1] = "dropout"

\* C10: during and after a forward pass of ViT the caller's image and the
\* parameters cls_token and positions hold the values they held before it, and
\* every child that added in place returns storage allocated after the call.
C10_ParametersAndInputUnchanged ==
    (IsViT /\ Started)
        => /\ store[inp.st] = InputVal
           /\ store[params.cls_token.st] = ClsTokenVal
           /\ store[params.positions.st] = PositionsVal(cfg)
           /\ (err = Ok /\ last # <<"none", 0>>) => x.st > inp.st

C10_Witness ==
    /\ IsViT /\ pc = "done" /\ err = Ok /\ cfg.depth = 2 /\ cfg.drop_p = 0
    /\ last = <<"head", 0>>
    /\ store[inp.st] = InputVal
    /\ store[params.positions.st] = PositionsVal(cfg)

====
